---- MODULE Spec2Model ----
(***************************************************************************)
(* Model of app.py: the UserBulkManager HTTP retry client, authenticator,  *)
(* identifier resolver, lock/delete executors and the batch runner.        *)
(* Strings whose characters matter (identifiers, ids returned by the       *)
(* provider) are sequences of one-character strings; JSON values are       *)
(* records [t, s] so that Python truthiness and type errors are modelled.  *)
(***************************************************************************)
EXTENDS Integers, Sequences, FiniteSets, TLC

\* ---------------------------------------------------------------- bounds
\* longest USER_ID_ARRAY list explored
MaxLen == 2
\* largest MAX_RETRIES explored for whole runs
MaxRunRetries == 1
\* largest MAX_RETRIES explored for single calls of the HTTP client
MaxRetriesCfg == 3
\* largest RATE_LIMIT_DELAY explored for single calls of the HTTP client
MaxDelay == 2

\* ------------------------------------------------------- character strings
Rep(c, n) == [k \in 1..n |-> c]

HexChars ==
  {"0","1","2","3","4","5","6","7","8","9",
   "a","b","c","d","e","f","A","B","C","D","E","F"}

\* "11111111-1111-4111-8111-111111111111"
U1 ==
  Rep("1", 8) \o <<"-">> \o Rep("1", 4) \o <<"-", "4">> \o Rep("1", 3)
    \o <<"-", "8">> \o Rep("1", 3) \o <<"-">> \o Rep("1", 12)

\* "ABCDEFAB-CDEF-5ABC-BDEF-ABCDEFABCDEF": upper case, version 5, variant B
U2 ==
  <<"A","B","C","D","E","F","A","B">> \o <<"-">> \o <<"C","D","E","F">>
    \o <<"-", "5">> \o <<"A","B","C">> \o <<"-", "B">> \o <<"D","E","F">>
    \o <<"-">> \o <<"A","B","C","D","E","F","A","B","C","D","E","F">>

\* "22222222-2222-4222-9222-222222222222": the id the provider knows
U3 ==
  Rep("2", 8) \o <<"-">> \o Rep("2", 4) \o <<"-", "4">> \o Rep("2", 3)
    \o <<"-", "9">> \o Rep("2", 3) \o <<"-">> \o Rep("2", 12)

\* "00000000-0000-0000-0000-000000000000": UUID shaped, version nibble 0
NilUuid ==
  Rep("0", 8) \o <<"-">> \o Rep("0", 4) \o <<"-">> \o Rep("0", 4)
    \o <<"-">> \o Rep("0", 4) \o <<"-">> \o Rep("0", 12)

\* "a@b.c"
E1 == <<"a", "@", "b", ".", "c">>

\* "xyz": an id that is a string but no UUID
BadId == <<"x", "y", "z">>

\* UUID_V4_RE, applied with re.match: anchored at both ends, and Python's $
\* also matches just before one trailing newline.
UUID_V4_RE(s) ==
  LET n == Len(s)
      core == IF n = 37 THEN SubSeq(s, 1, 36) ELSE s
  IN  /\ \/ n = 36
         \/ n = 37 /\ s[37] = "\n"
      /\ \A k \in 1..36 :
           CASE k \in {9, 14, 19, 24} -> core[k] = "-"
             [] k = 15 -> core[k] \in {"1", "2", "3", "4", "5"}
             [] k = 20 -> core[k] \in {"8", "9", "a", "b", "A", "B"}
             [] OTHER -> core[k] \in HexChars

\* a pattern written for the 32 hex digits of a UUID without its hyphens
LooksLikeHex32(value) ==
  Len(value) = 32 /\ \A k \in 1..Len(value) : value[k] \in HexChars

\* _looks_like_uuid, lines 163-165
looks_like_uuid(value) == UUID_V4_RE(value)

\* ------------------------------------------------------------ JSON values
JStr(s) == [t |-> "str", s |-> s]
JNum7 == [t |-> "num", s |-> <<"7">>]
None == [t |-> "none", s |-> <<>>]
Absent == [t |-> "absent", s |-> <<>>]

\* Python truthiness of a JSON value (None, "" are falsy; 7 is truthy)
Truthy(v) ==
  CASE v.t = "str" -> v.s # <<>>
    [] v.t = "num" -> TRUE
    [] OTHER -> FALSE

Tok == <<"t">>

\* Response bodies the provider may send. kind "dict" is a JSON object with
\* the fields that are not Absent, "array" is the JSON array ["token"],
\* "nojson" is text response.json() cannot parse.
DictBody(token, id) == [kind |-> "dict", token |-> token, id |-> id]
NoJsonBody == [kind |-> "nojson", token |-> Absent, id |-> Absent]
ArrayBody == [kind |-> "array", token |-> Absent, id |-> Absent]
ErrorText == [kind |-> "error", token |-> Absent, id |-> Absent]
NoBody == [kind |-> "none", token |-> Absent, id |-> Absent]

\* The bodies drawn for a response. A success body is drawn among those that
\* differ in the field the caller reads (token for the authentication, id for
\* the lookup, nothing for lock and delete); the body of an error response is
\* only passed through as raw text.
AuthBodies ==
  { DictBody(JStr(Tok), Absent),
    DictBody(JStr(<<>>), Absent),
    DictBody(Absent, Absent),
    NoJsonBody,
    ArrayBody }

LookupBodies ==
  { DictBody(Absent, JStr(U3)),
    DictBody(Absent, JStr(U2 \o <<"\n">>)),
    DictBody(Absent, JStr(BadId)),
    DictBody(Absent, JNum7),
    DictBody(Absent, Absent),
    NoJsonBody,
    ArrayBody }

PlainBodies == {DictBody(Absent, Absent), NoJsonBody}

Bodies(p, status) ==
  IF status \notin {200, 201, 204} THEN PlainBodies
  ELSE IF p = "auth" THEN AuthBodies
  ELSE IF p = "lookup" THEN LookupBodies
  ELSE PlainBodies

Statuses == {200, 201, 204, 401, 404, 429}

\* ------------------------------------------------------------- the inputs
Identifiers == {U1, NilUuid, E1}
Actions == {"lock", "delete", "purge"}
Purposes == {"auth", "lookup", "lock", "delete"}

RECURSIVE Pow2(_)
Pow2(n) == IF n = 0 THEN 1 ELSE 2 * Pow2(n - 1)

Lists == UNION {[1..n -> Identifiers] : n \in 0..MaxLen}


\* ------------------------------------------------------------------ state
VARIABLES
  ids,              \* USER_IDS_OR_EMAILS
  max_retries,      \* self.max_retries
  rate_limit_delay, \* self.rate_limit_delay
  action,           \* run's action argument
  dry_run,          \* run's dry_run argument
  pc,               \* where the program is
  err,              \* the exception that ended the run, if any
  bearer_token,     \* self.bearer_token
  cont,             \* the caller of the current _auth_headers()
  purpose,          \* which request the current _call_api_with_retry serves
  request,          \* its method, url and headers arguments
  sleeps,           \* every time.sleep of the current top-level call, in order
  retry_count,      \* its retry_count argument
  n429,             \* 429 responses received by the current top-level call
  nExc,             \* transport failures met by the current top-level call
  waits,            \* backoff sleeps of the current top-level call, in order
  attempts,         \* HTTP requests sent by the current top-level call
  ret,              \* the triple the call returned
  i,                \* position of run's for loop in ids
  user_id,          \* run's user_id
  processed,        \* run's processed
  failed,           \* run's failed
  report,           \* the dict run returned
  item_status,      \* status of the triple the lookup, lock or delete call of
                    \* the current identifier just returned
  itemCalls,        \* top-level _call_api_with_retry calls made for the
                    \* current identifier (before the loop: for run), by purpose
  sent,             \* the purposes an HTTP request has been sent for
  env_tenant,       \* os.environ's FRONTEGG_TENANT_ID ("" when it is not set)
  tenant_id         \* self.tenant_id

cfgVars == <<ids, max_retries, rate_limit_delay, env_tenant, tenant_id>>
callVars ==
  <<purpose, request, sleeps, retry_count, n429, nExc, waits, attempts, ret>>
loopVars == <<i, user_id, processed, failed, report, item_status>>
vars ==
  <<ids, max_retries, rate_limit_delay, action, dry_run, pc, err, bearer_token,
    cont, purpose, retry_count, n429, nExc, waits, attempts, ret, i, user_id,
    processed,
    failed, report, itemCalls, sent, env_tenant, tenant_id, request, sleeps,
    item_status>>

NoRet == [json |-> NoBody, status |-> -1, raw |-> NoBody]
NoReport == [returned |-> FALSE]
NoCalls == [p \in Purposes |-> 0]
NoRequest ==
  [method |-> "none", endpoint |-> "none", arg |-> <<>>,
   headers |-> [authorization |-> Absent, tenant |-> Absent]]

\* The state after UserBulkManager() was constructed (lines 58-82) with the
\* given configuration; where is "idle" for a whole run, "client" for calls
\* made on the HTTP client alone.
InitWith(lists, retries, delays, tenants, where) ==
  /\ ids \in lists
  /\ env_tenant \in tenants
  /\ tenant_id = env_tenant
  /\ request = NoRequest
  /\ sleeps = <<>>
  /\ item_status = NoRet.status
  /\ max_retries \in retries
  /\ rate_limit_delay \in delays
  /\ action = "unset"
  /\ dry_run = TRUE
  /\ pc = where
  /\ err = "none"
  /\ bearer_token = None
  /\ cont = "none"
  /\ purpose = "none"
  /\ retry_count = 0
  /\ n429 = 0
  /\ nExc = 0
  /\ waits = <<>>
  /\ attempts = 0
  /\ ret = NoRet
  /\ i = 0
  /\ user_id = None
  /\ processed = <<>>
  /\ failed = <<>>
  /\ report = NoReport
  /\ itemCalls = NoCalls
  /\ sent = {}

\* whole runs: the delay only scales the sleeps, one value is explored
Init == InitWith(Lists, 0..MaxRunRetries, {1}, {<<>>}, "idle")


\* single calls of _call_api_with_retry
ClientInit ==
  InitWith({<<>>}, 0..MaxRetriesCfg, 0..MaxDelay, {<<>>}, "client")

\* ----------------------------------------------------- pure parts of the code

\* a retry test that allows one retry more than max_retries
RateLimitRetryInclusive(status, rc, maxr) == status = 429 /\ rc <= maxr

\* line 109: response.status_code == 429 and retry_count < self.max_retries
RateLimitRetry(status, rc, maxr) == status = 429 /\ rc < maxr

\* a backoff that starts at twice the delay
BackoffWaitNextPower(rc, delay) == Pow2(rc + 1) * delay

\* a backoff written with * where the code has **
BackoffWaitLinear(rc, delay) == (2 * rc) * delay

\* lines 110 and 130: wait_time = (2**retry_count) * self.rate_limit_delay
BackoffWait(rc, delay) == Pow2(rc) * delay

\* line 118: response.status_code in (200, 201, 204)
SuccessStatus(status) == status \in {200, 201, 204}

\* lines 119-122: response.json(), or {} when the body does not parse
ParseJson(body) ==
  IF body.kind = "nojson" THEN DictBody(Absent, Absent) ELSE body

\* lines 117-125: the triple returned for a response that is not retried
ResponseTriple(status, body) ==
  IF SuccessStatus(status)
    THEN [json |-> ParseJson(body), status |-> status, raw |-> body]
    ELSE [json |-> NoBody, status |-> status, raw |-> body]

\* line 136: return None, 0, str(e)
TransportTriple == [json |-> NoBody, status |-> 0, raw |-> ErrorText]

\* a transport retry test that allows one retry more than max_retries
TransportRetryInclusive(rc, maxr) == rc <= maxr

\* line 129: retry_count < self.max_retries
TransportRetry(rc, maxr) == rc < maxr

\* lines 108-136: the triples the attempt with retry counter rc can return,
\* over the responses and transport failures that are not retried
CallResults(p, rc, maxr) ==
  { ResponseTriple(st, b) :
      <<st, b>> \in { sb \in UNION {{<<st2, b2>> : b2 \in Bodies(p, st2)} : st2 \in Statuses} :
                        ~RateLimitRetry(sb[1], rc, maxr) } }
    \cup IF TransportRetry(rc, maxr) THEN {} ELSE {TransportTriple}

\* Python truthiness of resp_json: None and {} are falsy
JsonTruthy(j) ==
  CASE j.kind = "none" -> FALSE
    [] j.kind = "dict" -> j.token # Absent \/ j.id # Absent
    [] OTHER -> TRUE

\* "token" in resp_json (the array body is ["token"])
HasToken(j) ==
  CASE j.kind = "dict" -> j.token # Absent
    [] j.kind = "array" -> TRUE
    [] OTHER -> FALSE

\* line 146: not resp_json or "token" not in resp_json
AuthRejected(j) == ~JsonTruthy(j) \/ ~HasToken(j)

\* line 154: not self.bearer_token
NeedsAuthenticate(token) == ~Truthy(token)

\* lines 176-183: what _resolve_user_id_by_email makes of the lookup triple.
\* re.match raises TypeError when uid is truthy and not a string.
ResolveLookup(r) ==
  IF r.status = 200 /\ r.json.kind = "dict"
    THEN LET uid == IF r.json.id = Absent THEN None ELSE r.json.id
         IN  IF ~Truthy(uid) THEN [raises |-> FALSE, uid |-> None]
             ELSE IF uid.t # "str" THEN [raises |-> TRUE, uid |-> None]
             ELSE IF looks_like_uuid(uid.s) THEN [raises |-> FALSE, uid |-> uid]
             ELSE [raises |-> FALSE, uid |-> None]
    ELSE [raises |-> FALSE, uid |-> None]

\* an executor that takes every status below 500 for a success
ActionOkNon5xx(status) == status > 0 /\ status < 500

\* an executor that takes every 2xx status the client accepts for a success
ActionOkAnySuccess(status) == status \in {200, 201, 204}

\* lines 199 and 216: status in (200, 204)
ActionOk(status) == status \in {200, 204}

\* line 238
NotFoundRecord(identifier) ==
  [identifier |-> identifier, reason |-> "not_found"]

\* an outcome record built without its action key
OutcomeRecordNoAction(identifier, uid, act, status) ==
  [identifier |-> identifier, userId |-> uid, status |-> status]

\* lines 242-249, 261-268, 270-277
OutcomeRecord(identifier, uid, act, status) ==
  [identifier |-> identifier, userId |-> uid, action |-> act, status |-> status]

\* a report whose processed_count counts every identifier attempted
ReportCountsAttempts(act, dry, proc, fail) ==
  [ returned |-> TRUE,
    success |-> Len(fail) = 0,
    action |-> act,
    dry_run |-> dry,
    processed_count |-> Len(proc) + Len(fail),
    failed_count |-> Len(fail),
    processed |-> proc,
    failed |-> fail ]

\* lines 279-287
Report(act, dry, proc, fail) ==
  [ returned |-> TRUE,
    success |-> Len(fail) = 0,
    action |-> act,
    dry_run |-> dry,
    processed_count |-> Len(proc),
    failed_count |-> Len(fail),
    processed |-> proc,
    failed |-> fail ]

\* ------------------------------------------------- requests and their headers
Whitespace == {" ", "\t", "\n"}

\* str.strip(): leading and trailing whitespace removed
RECURSIVE Strip(_)
Strip(s) ==
  IF s = <<>> THEN s
  ELSE IF Head(s) \in Whitespace THEN Strip(Tail(s))
  ELSE IF s[Len(s)] \in Whitespace THEN Strip(SubSeq(s, 1, Len(s) - 1))
  ELSE s

\* values of FRONTEGG_TENANT_ID: not set, plain, padded, blank
T1 == <<"t", "1">>
TenantValues == {<<>>, T1, <<" ">> \o T1 \o <<" ">>, <<" ">>}

\* self.default_headers, lines 78-81: no authorization, no tenant header
DefaultHeaders == [authorization |-> Absent, tenant |-> Absent]

\* _auth_headers, lines 156-160: the default headers plus the bearer token
BearerHeaders(token) == [DefaultHeaders EXCEPT !.authorization = token]

\* a delete_user that sends self.tenant_id as it was read, unstripped
TenantHeaderUnstripped(headers, tenant_env) ==
  IF tenant_env # <<>>
    THEN [headers EXCEPT !.tenant = JStr(tenant_env)]
    ELSE headers

\* delete_user, lines 211-213: the stripped environment value, when not empty
TenantHeader(headers, tenant_env) ==
  IF Strip(tenant_env) # <<>>
    THEN [headers EXCEPT !.tenant = JStr(Strip(tenant_env))]
    ELSE headers

\* authenticate, lines 141-145
AuthRequest ==
  [method |-> "POST", endpoint |-> "auth/vendor", arg |-> <<>>,
   headers |-> DefaultHeaders]

\* _resolve_user_id_by_email, lines 172-175
LookupRequest(email, token) ==
  [method |-> "GET", endpoint |-> "users/v1/email", arg |-> email,
   headers |-> BearerHeaders(token)]

\* lock_user, lines 196-198
LockRequest(uid, token) ==
  [method |-> "POST", endpoint |-> "users/v1/{}/lock", arg |-> uid,
   headers |-> BearerHeaders(token)]

\* delete_user, lines 210-215
DeleteRequest(uid, token, tenant_env) ==
  [method |-> "DELETE", endpoint |-> "users/v1/{}", arg |-> uid,
   headers |-> TenantHeader(BearerHeaders(token), tenant_env)]

\* the request of a call made on the client alone, by purpose
ClientRequest(p) ==
  CASE p = "auth" -> AuthRequest
    [] p = "lookup" -> LookupRequest(E1, Tok)
    [] p = "lock" -> LockRequest(U1, Tok)
    [] OTHER -> DeleteRequest(U1, Tok, <<>>)

\* a client that throttles only the first attempt of a call
ThrottleFirstOnly(rc, delay) == IF rc = 0 THEN <<delay>> ELSE <<>>

\* _call_api_with_retry, line 97: time.sleep(self.rate_limit_delay) before
\* the request of every attempt
ThrottleSleep(rc, delay) == <<delay>>

\* a run that puts each new record in front of the list
RecordFront(list, rec) == <<rec>> \o list

\* run, lines 238, 242, 261 and 270: list.append(record)
Record(list, rec) == Append(list, rec)

\* ---------------------------------------------------------------- actions
ResetCall ==
  /\ purpose' = "none"
  /\ request' = NoRequest
  /\ sleeps' = <<>>
  /\ retry_count' = 0
  /\ n429' = 0
  /\ nExc' = 0
  /\ waits' = <<>>
  /\ attempts' = 0
  /\ ret' = NoRet

\* a top-level _call_api_with_retry(...) with retry_count = 0
BeginCall(p, rq) ==
  /\ purpose' = p
  /\ request' = rq
  /\ sleeps' = <<>>
  /\ retry_count' = 0
  /\ n429' = 0
  /\ nExc' = 0
  /\ waits' = <<>>
  /\ attempts' = 0
  /\ ret' = NoRet
  /\ itemCalls' = [itemCalls EXCEPT ![p] = @ + 1]
  /\ pc' = "send"

Raise(e) ==
  /\ pc' = "raised"
  /\ err' = e

\* a run that asks for the token before it looks at the list
run_enter_unchecked(a, d) ==
  /\ pc = "idle"
  /\ action' = a
  /\ dry_run' = d
  /\ pc' = "auth_headers"
  /\ cont' = "run"
  /\ UNCHANGED <<cfgVars, err, bearer_token, callVars, loopVars, itemCalls,
                 sent>>

\* run, lines 222-227: the empty list is rejected, then _auth_headers()
run_enter(a, d) ==
  /\ pc = "idle"
  /\ action' = a
  /\ dry_run' = d
  /\ IF ids = <<>>
       THEN Raise("ValueError@224") /\ UNCHANGED cont
       ELSE pc' = "auth_headers" /\ cont' = "run" /\ UNCHANGED err
  /\ UNCHANGED <<cfgVars, bearer_token, callVars, loopVars, itemCalls, sent>>

\* run called directly, with any action
run ==
  \E a \in Actions, d \in BOOLEAN : run_enter(a, d)

\* line 312: action not in allowed
ActionAllowed(a) == a \in {"lock", "delete"}

\* main, lines 309-334: the action is validated, then run(action, dry_run)
main ==
  \E a \in Actions, execute \in BOOLEAN :
    IF ~ActionAllowed(a)
      THEN /\ pc = "idle"
           /\ pc' = "exit2"
           /\ action' = a
           /\ UNCHANGED <<cfgVars, dry_run, err, bearer_token, cont, callVars,
                          loopVars, itemCalls, sent>>
      ELSE run_enter(a, ~execute)

\* _auth_headers, lines 153-160
auth_headers ==
  /\ pc = "auth_headers"
  /\ IF NeedsAuthenticate(bearer_token)
       THEN BeginCall("auth", AuthRequest)
       ELSE pc' = "headers" /\ UNCHANGED <<callVars, itemCalls>>
  /\ UNCHANGED <<cfgVars, action, dry_run, err, bearer_token, cont, loopVars,
                 sent>>

\* _call_api_with_retry, lines 96-104: the throttle sleep, then the request
call_send ==
  /\ pc = "send"
  /\ sleeps' = sleeps \o ThrottleSleep(retry_count, rate_limit_delay)
  /\ sent' = sent \cup {purpose}
  /\ attempts' = attempts + 1
  /\ pc' = "wait"
  /\ UNCHANGED <<cfgVars, action, dry_run, err, bearer_token, cont, purpose,
                 request, retry_count, n429, nExc, waits, ret, loopVars,
                 itemCalls>>

\* _call_api_with_retry, lines 108-115: a 429 with retries left
call_rate_limited ==
  /\ pc = "wait"
  /\ RateLimitRetry(429, retry_count, max_retries)
  /\ waits' = Append(waits, BackoffWait(retry_count, rate_limit_delay))
  /\ sleeps' = Append(sleeps, BackoffWait(retry_count, rate_limit_delay))
  /\ retry_count' = retry_count + 1
  /\ n429' = n429 + 1
  /\ pc' = "send"
  /\ UNCHANGED <<cfgVars, action, dry_run, err, bearer_token, cont, purpose,
                 request, nExc, attempts, ret, loopVars, itemCalls, sent>>

\* _call_api_with_retry, lines 127-135: RequestException with retries left
call_transport_retry ==
  /\ pc = "wait"
  /\ TransportRetry(retry_count, max_retries)
  /\ waits' = Append(waits, BackoffWait(retry_count, rate_limit_delay))
  /\ sleeps' = Append(sleeps, BackoffWait(retry_count, rate_limit_delay))
  /\ retry_count' = retry_count + 1
  /\ nExc' = nExc + 1
  /\ pc' = "send"
  /\ UNCHANGED <<cfgVars, action, dry_run, err, bearer_token, cont, purpose,
                 request, n429, attempts, ret, loopVars, itemCalls, sent>>

\* authenticate, lines 143-151: the call returned r; back into _auth_headers
authenticate_return ==
  /\ pc = "wait"
  /\ purpose = "auth"
  /\ \E r \in CallResults(purpose, retry_count, max_retries) :
       IF AuthRejected(r.json)
         THEN Raise("Exception@147") /\ UNCHANGED bearer_token
         ELSE IF r.json.kind # "dict"
           THEN Raise("TypeError@150") /\ UNCHANGED bearer_token
           ELSE /\ bearer_token' = r.json.token
                /\ pc' = "headers"
                /\ UNCHANGED err
  /\ ResetCall
  /\ UNCHANGED <<cfgVars, action, dry_run, cont, loopVars, itemCalls, sent>>

\* run, lines 227-231: _auth_headers() returned, the loop starts
run_loop_start ==
  /\ pc = "headers"
  /\ cont = "run"
  /\ processed' = <<>>
  /\ failed' = <<>>
  /\ i' = 1
  /\ pc' = "loop"
  /\ cont' = "none"
  /\ itemCalls' = NoCalls
  /\ UNCHANGED <<cfgVars, action, dry_run, err, bearer_token, callVars, user_id,
                 report, item_status, sent>>

\* run, lines 231-236 and 279-287, with _ensure_user_id, lines 185-189
run_loop ==
  /\ pc = "loop"
  /\ IF i > Len(ids)
       THEN /\ report' = Report(action, dry_run, processed, failed)
            /\ pc' = "returned"
            /\ UNCHANGED <<user_id, cont>>
       ELSE IF looks_like_uuid(ids[i])
         THEN /\ user_id' = JStr(ids[i])
              /\ pc' = "dispatch"
              /\ UNCHANGED <<report, cont>>
         ELSE /\ cont' = "lookup"
              /\ pc' = "auth_headers"
              /\ UNCHANGED <<report, user_id>>
  /\ item_status' = NoRet.status
  /\ UNCHANGED <<cfgVars, action, dry_run, err, bearer_token, callVars, i,
                 processed, failed, itemCalls, sent>>

\* _resolve_user_id_by_email, lines 172-175: the GET is issued
lookup_call ==
  /\ pc = "headers"
  /\ cont = "lookup"
  /\ BeginCall("lookup", LookupRequest(ids[i], bearer_token))
  /\ cont' = "none"
  /\ UNCHANGED <<cfgVars, action, dry_run, err, bearer_token, loopVars, sent>>

\* _resolve_user_id_by_email, lines 175-183: the call returned r
lookup_return ==
  /\ pc = "wait"
  /\ purpose = "lookup"
  /\ \E r \in CallResults(purpose, retry_count, max_retries) :
       LET o == ResolveLookup(r)
       IN  /\ item_status' = r.status
           /\ IF o.raises
                THEN Raise("TypeError@165") /\ UNCHANGED user_id
                ELSE user_id' = o.uid /\ pc' = "dispatch" /\ UNCHANGED err
  /\ ResetCall
  /\ UNCHANGED <<cfgVars, action, dry_run, bearer_token, cont, i, processed,
                 failed, report, itemCalls, sent>>

\* a dispatch that looks at the action before the dry_run flag
DispatchIgnoresDryRun(uid, dry, act) ==
  IF ~Truthy(uid) THEN "not_found"
  ELSE IF act = "lock" THEN "lock"
  ELSE IF act = "delete" THEN "delete"
  ELSE IF dry THEN "dry_run"
  ELSE "invalid"

\* run, lines 237-258: which branch the loop body takes after the resolution
Dispatch(uid, dry, act) ==
  IF ~Truthy(uid) THEN "not_found"
  ELSE IF dry THEN "dry_run"
  ELSE IF act = "lock" THEN "lock"
  ELSE IF act = "delete" THEN "delete"
  ELSE "invalid"

\* run, lines 237-258: the outcome of the resolution is recorded or dispatched
run_dispatch ==
  /\ pc = "dispatch"
  /\ LET d == Dispatch(user_id, dry_run, action)
     IN  CASE d = "not_found" ->
                /\ failed' = Record(failed, NotFoundRecord(ids[i]))
                /\ i' = i + 1
                /\ pc' = "loop"
                /\ itemCalls' = NoCalls
                /\ UNCHANGED <<processed, cont, err>>
           [] d = "dry_run" ->
                /\ processed' =
                     Record(processed, OutcomeRecord(ids[i], user_id.s, action, "dry_run"))
                /\ i' = i + 1
                /\ pc' = "loop"
                /\ itemCalls' = NoCalls
                /\ UNCHANGED <<failed, cont, err>>
           [] d \in {"lock", "delete"} ->
                /\ cont' = d
                /\ pc' = "auth_headers"
                /\ UNCHANGED <<processed, failed, i, err, itemCalls>>
           [] OTHER ->
                /\ Raise("ValueError@258")
                /\ UNCHANGED <<processed, failed, i, cont, itemCalls>>
  /\ item_status' = NoRet.status
  /\ UNCHANGED <<cfgVars, action, dry_run, bearer_token, callVars, user_id,
                 report, sent>>

\* lock_user, lines 196-198, and delete_user, lines 210-215: the request
action_call ==
  /\ pc = "headers"
  /\ cont \in {"lock", "delete"}
  /\ BeginCall(cont, IF cont = "lock"
                       THEN LockRequest(user_id.s, bearer_token)
                       ELSE DeleteRequest(user_id.s, bearer_token, env_tenant))
  /\ cont' = "none"
  /\ UNCHANGED <<cfgVars, action, dry_run, err, bearer_token, loopVars, sent>>

\* lock_user, lines 198-202, delete_user, lines 215-219, run, lines 260-277:
\* the call returned r
action_return ==
  /\ pc = "wait"
  /\ purpose \in {"lock", "delete"}
  /\ \E r \in CallResults(purpose, retry_count, max_retries) :
       /\ item_status' = r.status
       /\ IF ActionOk(r.status)
            THEN /\ processed' =
                      Record(processed, OutcomeRecord(ids[i], user_id.s, action, "success"))
                 /\ UNCHANGED failed
            ELSE /\ failed' =
                      Record(failed, OutcomeRecord(ids[i], user_id.s, action, "failed"))
                 /\ UNCHANGED processed
  /\ i' = i + 1
  /\ pc' = "loop"
  /\ itemCalls' = NoCalls
  /\ ResetCall
  /\ UNCHANGED <<cfgVars, action, dry_run, err, bearer_token, cont, user_id,
                 report, sent>>

Next ==
  \/ run
  \/ main
  \/ auth_headers
  \/ call_send
  \/ call_rate_limited
  \/ call_transport_retry
  \/ authenticate_return
  \/ run_loop_start
  \/ run_loop
  \/ lookup_call
  \/ lookup_return
  \/ run_dispatch
  \/ action_call
  \/ action_return

Spec == Init /\ [][Next]_vars

\* ------------------------------------------- the HTTP client called alone

\* a caller invokes _call_api_with_retry(method, url, ...) on the client
client_call ==
  /\ pc = "client"
  /\ \E p \in Purposes : BeginCall(p, ClientRequest(p))
  /\ UNCHANGED <<cfgVars, action, dry_run, err, bearer_token, cont, loopVars,
                 sent>>

\* _call_api_with_retry, lines 117-125 and 136: the triple is returned
client_return ==
  /\ pc = "wait"
  /\ \E r \in CallResults(purpose, retry_count, max_retries) :
       /\ ret' = r
       /\ n429' = IF r.status = 429 THEN n429 + 1 ELSE n429
       /\ nExc' = IF r.status = 0 THEN nExc + 1 ELSE nExc
  /\ pc' = "ret"
  /\ UNCHANGED <<cfgVars, action, dry_run, err, bearer_token, cont, purpose,
                 request, sleeps, retry_count, waits, attempts, loopVars,
                 itemCalls, sent>>

\* the caller took the triple
client_done ==
  /\ pc = "ret"
  /\ pc' = "client"
  /\ ResetCall
  /\ itemCalls' = NoCalls
  /\ UNCHANGED <<cfgVars, action, dry_run, err, bearer_token, cont, loopVars,
                 sent>>

ClientNext ==
  \/ client_call
  \/ call_send
  \/ call_rate_limited
  \/ call_transport_retry
  \/ client_return
  \/ client_done

ClientSpec == ClientInit /\ [][ClientNext]_vars

\* every request sent gets an answer or fails, and the code then goes on
ClientFairSpec == ClientSpec /\ WF_vars(ClientNext)

\* whole runs over at most one identifier, for each value of FRONTEGG_TENANT_ID
TenantInit ==
  InitWith({l \in Lists : Len(l) <= 1}, 0..MaxRunRetries, {1}, TenantValues,
           "idle")

TenantSpec == TenantInit /\ [][Next]_vars

\* ------------------------------------------------------------------ claims

Started == pc \notin {"idle", "exit2", "client"}

IsPrefix(s1, s2) == Len(s1) <= Len(s2) /\ SubSeq(s2, 1, Len(s1)) = s1

\* C1: every report run returns has processed_count + failed_count equal to
\* the length of the identifier list (duplicates counted), processed_count
\* and failed_count equal to the lengths of processed and failed, and
\* success true exactly when failed_count is 0.
C1_ReportCounts ==
  pc = "returned" =>
    /\ report.processed_count + report.failed_count = Len(ids)
    /\ report.processed_count = Len(report.processed)
    /\ report.failed_count = Len(report.failed)
    /\ report.success = (report.failed_count = 0)
    /\ report.processed = processed
    /\ report.failed = failed

\* a run over a list with a duplicate returned a report with one entry
\* processed and one failed
C1_Witness ==
  /\ pc = "returned"
  /\ Len(ids) = 2
  /\ ids[1] = ids[2]
  /\ report.processed_count = 1
  /\ report.failed_count = 1

\* C2: in dry-run mode no lock or delete request is sent and neither
\* executor is called, each identifier that resolved to a UUID is appended
\* to processed with status dry_run, entries of processed are never removed,
\* and the report returns that list.
C2_DryRunNoMutation ==
  [][ (dry_run' /\ Started') =>
        /\ sent' \cap {"lock", "delete"} = {}
        /\ purpose' \notin {"lock", "delete"}
        /\ cont' \notin {"lock", "delete"}
        /\ (pc = "dispatch" /\ Truthy(user_id)) =>
             processed' =
               Append(processed,
                      [identifier |-> ids[i], userId |-> user_id.s,
                       action |-> action, status |-> "dry_run"])
        /\ pc # "idle" => IsPrefix(processed, processed')
        /\ pc' = "returned" => report'.processed = processed' ]_vars

\* a dry run returned with an identifier resolved by lookup and one given
\* as a UUID, both in processed
C2_Witness ==
  /\ pc = "returned"
  /\ dry_run
  /\ ids = <<E1, U1>>
  /\ Len(processed) = 2
  /\ processed[1].userId = U3
  /\ "lookup" \in sent

\* C3: run with an action other than lock and delete ends in a configuration
\* error before the loop and before any network call, in dry-run and in
\* execute mode. (Refuted by the code: run authenticates first and looks at
\* the action only per item, in execute mode.)
C3_InvalidActionFailsFast ==
  (Started /\ ~ActionAllowed(action)) =>
    /\ sent = {}
    /\ i = 0
    /\ pc # "returned"

\* C4: with a valid action and a usable cached token, once the loop has
\* started no exception ends the run, whatever the lookup and action calls
\* return. (Refuted by the code: a 200 lookup body whose id is a number makes
\* re.match raise TypeError.)
C4_NoAbortInLoop ==
  (ActionAllowed(action) /\ i >= 1 /\ Truthy(bearer_token)) => pc # "raised"

\* C5: authenticate() runs once, before the first identifier: the token is
\* cached when the loop starts, and once a response with a token field was
\* cached, whatever its value, no further authentication call is made.
\* (Refuted by the code: _auth_headers tests the token's truth value, so an
\* empty token is fetched again by every later _auth_headers().)
C5_AuthenticateOnce ==
  /\ i >= 1 => bearer_token # None
  /\ bearer_token # None => purpose # "auth"

\* C6: when an authentication response yields no token, the run ends in an
\* error with no lookup, lock or delete request ever sent, no identifier
\* processed and no report. (Refuted by the code only through C5: after an
\* empty token a later authentication can fail in the middle of the loop.)
C6_AuthFailureBeforeAnyWork ==
  (pc = "raised" /\ err \in {"Exception@147", "TypeError@150"}) =>
    /\ sent \subseteq {"auth"}
    /\ processed = <<>>
    /\ failed = <<>>
    /\ report = NoReport

RECURSIVE SumSeq(_)
SumSeq(q) == IF q = <<>> THEN 0 ELSE q[1] + SumSeq(Tail(q))

\* C7: a call answered by N 429s and then a success (no transport failure)
\* has N <= max_retries, made N retries and N + 1 requests, returns the
\* success response, and slept 2^k * rate_limit_delay before retry k + 1,
\* in total (2^N - 1) * rate_limit_delay.
C7_BackoffSchedule ==
  (pc = "ret" /\ nExc = 0 /\ ret.status \in {200, 201, 204}) =>
    /\ n429 <= max_retries
    /\ retry_count = n429
    /\ attempts = n429 + 1
    /\ Len(waits) = n429
    /\ \A k \in 1..Len(waits) : waits[k] = Pow2(k - 1) * rate_limit_delay
    /\ SumSeq(waits) = (Pow2(n429) - 1) * rate_limit_delay
    /\ ret.json.kind \in {"dict", "array"}

\* three 429s, then a 200, with a delay of 2: waits 2, 4, 8
C7_Witness ==
  /\ pc = "ret"
  /\ nExc = 0
  /\ n429 = 3
  /\ ret.status = 200
  /\ rate_limit_delay = 2
  /\ waits = <<2, 4, 8>>

\* C8: for an identifier matching the UUIDv4 pattern the resolver returns
\* the identifier itself, in one step, with no authentication or lookup call
\* started and no request sent.
C8_UuidPassThrough ==
  [][ (pc = "loop" /\ i <= Len(ids) /\ UUID_V4_RE(ids[i])) =>
        /\ pc' = "dispatch"
        /\ user_id' = JStr(ids[i])
        /\ sent' = sent
        /\ itemCalls' = itemCalls
        /\ purpose' = "none"
        /\ attempts' = 0 ]_vars

\* the second entry of the list is a UUID and was resolved to itself with
\* no call made for it
C8_Witness ==
  /\ pc = "dispatch"
  /\ i = 2
  /\ ids[2] = U1
  /\ user_id = JStr(U1)
  /\ itemCalls = NoCalls

\* the id the claim says a lookup triple resolves to
C9_ClaimedUid(r) ==
  IF /\ r.status = 200
     /\ r.json.kind = "dict"
     /\ r.json.id.t = "str"
     /\ UUID_V4_RE(r.json.id.s)
    THEN r.json.id
    ELSE None

\* C9: an identifier not matching the pattern is resolved by exactly one
\* lookup call, whose return never raises: user_id is the 200 body's id when
\* that id matches the pattern, none otherwise. (Refuted by the code: an id
\* that is a number makes re.match raise TypeError.)
C9_ResolveByLookup ==
  [][ /\ (pc = "loop" /\ i <= Len(ids) /\ ~UUID_V4_RE(ids[i])) =>
           (cont' = "lookup" /\ pc' = "auth_headers")
      /\ (pc = "wait" /\ purpose = "lookup" /\ pc' # "send") =>
           /\ pc' = "dispatch"
           /\ itemCalls.lookup = 1
           /\ \E r \in CallResults(purpose, retry_count, max_retries) :
                user_id' = C9_ClaimedUid(r) ]_vars

CountOf(x, q) == Cardinality({k \in 1..Len(q) : q[k].identifier = x})

FullRecordKeys == {"identifier", "userId", "action", "status"}

\* C10 as stated: every record carries identifier, action and a status in
\* {dry_run, success, failed, not_found}; processed holds dry_run or
\* success, failed holds failed or not_found; one record per identifier.
\* (Refuted by the code: the record of an unresolved identifier is
\* {identifier, reason}, with no action and no status.)
C10_RecordShape ==
  /\ \A k \in 1..Len(processed) :
       /\ {"identifier", "action", "status"} \subseteq DOMAIN processed[k]
       /\ processed[k].status \in {"dry_run", "success"}
  /\ \A k \in 1..Len(failed) :
       /\ {"identifier", "action", "status"} \subseteq DOMAIN failed[k]
       /\ failed[k].status \in {"failed", "not_found"}
  /\ i >= 1 => Len(processed) + Len(failed) = i - 1

\* C10 amended: the record of a resolved identifier carries identifier,
\* userId, the run's action and a status (dry_run or success in processed,
\* failed in failed); the record of an unresolved identifier is in failed and
\* carries only identifier and reason = not_found; one record per list
\* entry handled so far, and in the report one per list entry.
C10_RecordShapeAmended ==
  /\ \A k \in 1..Len(processed) :
       /\ DOMAIN processed[k] = FullRecordKeys
       /\ processed[k].action = action
       /\ processed[k].status \in {"dry_run", "success"}
       /\ processed[k].status = "dry_run" <=> dry_run
  /\ \A k \in 1..Len(failed) :
       \/ /\ DOMAIN failed[k] = {"identifier", "reason"}
          /\ failed[k].reason = "not_found"
       \/ /\ DOMAIN failed[k] = FullRecordKeys
          /\ failed[k].action = action
          /\ failed[k].status = "failed"
          /\ ~dry_run
  /\ i >= 1 =>
       /\ Len(processed) + Len(failed) = i - 1
       /\ \A x \in Identifiers :
            CountOf(x, processed) + CountOf(x, failed)
              = Cardinality({k \in 1..(i - 1) : ids[k] = x})
  /\ pc = "returned" => i = Len(ids) + 1

\* an execute run returned with one identifier locked or deleted and one
\* not found
C10_Witness ==
  /\ pc = "returned"
  /\ ~dry_run
  /\ Len(processed) = 1
  /\ processed[1].status = "success"
  /\ Len(failed) = 1
  /\ DOMAIN failed[1] = {"identifier", "reason"}

\* C11: a run over an empty identifier list raises the configuration error
\* of line 224 at once: no authentication, lookup or action request has been
\* begun or sent, nothing is reported, and the cached token is still unset.
C11_EmptyListFailsFast ==
  (Started /\ ids = <<>>) =>
    /\ pc = "raised"
    /\ err = "ValueError@224"
    /\ sent = {}
    /\ itemCalls = NoCalls
    /\ purpose = "none"
    /\ attempts = 0
    /\ request = NoRequest
    /\ bearer_token = None
    /\ report = NoReport

C11_Witness ==
  /\ ids = <<>>
  /\ pc = "raised"
  /\ err = "ValueError@224"
  /\ action \in {"lock", "delete"}

IdsOf(q) == [k \in 1..Len(q) |-> q[k].identifier]

\* the entries of l at the positions in S, from position k on, in list order
RECURSIVE Pick(_, _, _)
Pick(l, S, k) ==
  IF k > Len(l) THEN <<>>
  ELSE (IF k \in S THEN <<l[k]>> ELSE <<>>) \o Pick(l, S, k + 1)

\* C12: the identifiers are handled one position at a time, in list order:
\* processed and failed are the entries of two complementary sets of the
\* positions already handled, each in list order; a call in flight serves the
\* current position i while exactly i - 1 entries are recorded; and i only
\* moves to i + 1, with no call in flight and entry i recorded.
C12_ListOrder ==
  /\ [](i >= 1 =>
         \E S \in SUBSET (1..(i - 1)) :
           /\ IdsOf(processed) = Pick(ids, S, 1)
           /\ IdsOf(failed) = Pick(ids, (1..(i - 1)) \ S, 1))
  /\ [](purpose \in {"lookup", "lock", "delete"} =>
         /\ i \in 1..Len(ids)
         /\ Len(processed) + Len(failed) = i - 1
         /\ purpose = "lookup" => request.arg = ids[i]
         /\ purpose # "lookup" => request.arg = user_id.s)
  /\ [][i' # i =>
          /\ i' = i + 1
          /\ pc' = "loop"
          /\ purpose' = "none"
          /\ attempts' = 0
          /\ Len(processed') + Len(failed') = i]_vars

C12_Witness ==
  /\ pc = "returned"
  /\ Len(ids) = 2
  /\ ids[1] # ids[2]
  /\ IdsOf(processed) = <<ids[2]>>
  /\ IdsOf(failed) = <<ids[1]>>
  /\ ~dry_run

\* a request of the current call is being sent or has been sent
OnTheWire == purpose # "none" /\ pc \in {"send", "wait"}

\* C13 as stated: every DELETE request carries frontegg-tenant-id equal to
\* the tenant id the client was configured with whenever that is set, no
\* tenant header when it is not set, and no other request carries one.
C13_TenantHeader ==
  OnTheWire =>
    IF purpose = "delete"
      THEN request.headers.tenant =
             IF tenant_id # <<>> THEN JStr(tenant_id) ELSE Absent
      ELSE request.headers.tenant = Absent

\* h is t without its leading and trailing whitespace
StripsTo(t, h) ==
  \E a, b \in 0..Len(t) :
    /\ a + b <= Len(t)
    /\ h = SubSeq(t, a + 1, Len(t) - b)
    /\ \A k \in 1..a : t[k] \in Whitespace
    /\ \A k \in (Len(t) - b + 1)..Len(t) : t[k] \in Whitespace
    /\ h # <<>> => (h[1] \notin Whitespace /\ h[Len(h)] \notin Whitespace)

\* C13, amended: every DELETE request, retries included, carries
\* frontegg-tenant-id equal to the configured tenant id with its surrounding
\* whitespace removed, and no tenant header when nothing is left of it (not
\* set, or blank); authentication, lookup and lock requests never carry one.
C13_TenantHeaderStripped ==
  OnTheWire =>
    /\ tenant_id = env_tenant
    /\ IF purpose = "delete"
         THEN \E a, b \in 0..Len(tenant_id) :
                LET h == SubSeq(tenant_id, a + 1, Len(tenant_id) - b)
                IN  /\ StripsTo(tenant_id, h)
                    /\ request.headers.tenant =
                         IF h = <<>> THEN Absent ELSE JStr(h)
         ELSE request.headers.tenant = Absent

C13_Witness ==
  /\ purpose = "delete"
  /\ pc = "wait"
  /\ attempts = 2
  /\ tenant_id = <<" ">> \o T1 \o <<" ">>
  /\ request.headers.tenant = JStr(T1)

\* C14: a call that was answered by 429 on every attempt stops after exactly
\* max_retries retries, that is max_retries + 1 requests, and returns that
\* last response as it is: no parsed body, status 429 (not 0), the body text
\* of the response (not an error message); a returned 429 always means the
\* retries are used up, and the callers take it for an ordinary failure:
\* no token, no user id, executor false.
C14_PersistentRateLimit ==
  (pc = "ret" /\ ret.status = 429) =>
    /\ retry_count = max_retries
    /\ attempts = max_retries + 1
    /\ Len(waits) = max_retries
    /\ nExc = 0 => n429 = max_retries + 1
    /\ ret.json = NoBody
    /\ ret.raw \in PlainBodies
    /\ ret.raw # ErrorText
    /\ ret # TransportTriple
    /\ AuthRejected(ret.json)
    /\ ~ActionOk(ret.status)
    /\ ResolveLookup(ret) = [raises |-> FALSE, uid |-> None]

C14_Witness ==
  /\ pc = "ret"
  /\ ret.status = 429
  /\ nExc = 0
  /\ max_retries = MaxRetriesCfg
  /\ n429 = max_retries + 1
  /\ attempts = max_retries + 1

\* every backoff wait so far follows the schedule: 2^(k-1) * delay before
\* retry number k, whichever failure caused the retry
BackoffScheduleKept ==
  /\ Len(waits) = retry_count
  /\ retry_count <= max_retries
  /\ \A k \in 1..Len(waits) : waits[k] = Pow2(k - 1) * rate_limit_delay

\* a call whose attempts all failed at transport level returned
\* (none, 0, error message) after max_retries retries
AllTransportFailed ==
  (pc = "ret" /\ nExc = attempts) =>
    /\ ret = TransportTriple
    /\ retry_count = max_retries
    /\ attempts = max_retries + 1

\* C15 as stated: transport failures are retried on the 429 schedule up to
\* max_retries times, a call whose attempts all failed at transport level
\* returns (none, 0, error message), and status 0 is returned only by a call
\* whose attempts all failed at transport level.
C15_TransportFailure ==
  /\ BackoffScheduleKept
  /\ AllTransportFailed
  /\ (pc = "ret" /\ ret.status = 0) => (nExc = attempts /\ n429 = 0)

\* C15, amended: the same, but status 0 is returned by every call whose last
\* attempt failed at transport level with the retry counter used up: each of
\* its max_retries + 1 attempts was a 429 or a transport failure, at least
\* one of them a transport failure.
C15_TransportFailureAmended ==
  /\ BackoffScheduleKept
  /\ AllTransportFailed
  /\ (pc = "ret" /\ ret.status = 0) =>
       /\ ret = TransportTriple
       /\ retry_count = max_retries
       /\ attempts = max_retries + 1
       /\ n429 + nExc = attempts
       /\ nExc >= 1

C15_Witness ==
  /\ pc = "ret"
  /\ ret.status = 0
  /\ max_retries = MaxRetriesCfg
  /\ rate_limit_delay = MaxDelay
  /\ n429 >= 1
  /\ nExc >= 2

\* C16: whatever mix of 429 responses and transport failures a call meets,
\* both retry paths count on the one retry counter: the retries made equal
\* the 429s plus the transport failures retried, at most max_retries + 1
\* requests are sent, the counter never decreases during the call, and the
\* call always ends by returning a triple.
C16_SharedRetryCounter ==
  /\ [](purpose # "none" =>
         /\ retry_count <= max_retries
         /\ attempts <= max_retries + 1
         /\ pc = "send" => (attempts = retry_count /\ n429 + nExc = retry_count)
         /\ pc = "wait" =>
              (attempts = retry_count + 1 /\ n429 + nExc = retry_count)
         /\ pc = "ret" =>
              /\ attempts = retry_count + 1
              /\ ret.status \in Statuses \cup {0}
              /\ ret.status \in {0, 429} => n429 + nExc = max_retries + 1)
  /\ [][retry_count' < retry_count => pc' = "client"]_vars
  /\ (pc = "send") ~> (pc = "ret")

C16_Witness ==
  /\ pc = "ret"
  /\ max_retries = MaxRetriesCfg
  /\ attempts = max_retries + 1
  /\ n429 = 2
  /\ nExc = 1
  /\ ret.status = 200

\* C20: every HTTP request, retries and the authentication request included,
\* directly follows a time.sleep(rate_limit_delay) of its own: the sleeps of a
\* call are the throttle sleep of attempt 1, then for each retry its backoff
\* wait followed by the throttle sleep of the next attempt, so the backoff
\* waits come on top of the throttle sleeps.
C20_ThrottleBeforeEveryRequest ==
  purpose # "none" =>
    /\ Len(sleeps) = attempts + Len(waits)
    /\ \A k \in 1..attempts : sleeps[2 * k - 1] = rate_limit_delay
    /\ \A k \in 1..Len(waits) : sleeps[2 * k] = waits[k]
    /\ pc \in {"wait", "ret"} =>
         /\ attempts >= 1
         /\ Len(sleeps) = 2 * attempts - 1
         /\ sleeps[Len(sleeps)] = rate_limit_delay
    /\ SumSeq(sleeps) = attempts * rate_limit_delay + SumSeq(waits)

C20_Witness ==
  /\ pc = "wait"
  /\ purpose = "auth"
  /\ attempts = 3
  /\ rate_limit_delay = MaxDelay
  /\ sleeps = <<MaxDelay, MaxDelay, MaxDelay, 2 * MaxDelay, MaxDelay>>

FailedRecord ==
  [identifier |-> ids[i], userId |-> user_id.s, action |-> action,
   status |-> "failed"]

SuccessRecord ==
  [identifier |-> ids[i], userId |-> user_id.s, action |-> action,
   status |-> "success"]

\* C17: when a lock, delete or lookup call comes back with 401, the cached
\* token stays as it is, no call and no request follows for that identifier
\* (no authentication in particular), the identifier is appended to failed
\* (as a failed action, or as not found after a lookup), and the loop moves
\* on to the next position; while the cached token is set, no authentication
\* call is ever begun.
C17_RejectedTokenIsItemFailure ==
  /\ [][Truthy(bearer_token) => ~(purpose = "none" /\ purpose' = "auth")]_vars
  /\ [][/\ (pc = "wait" /\ purpose \in {"lock", "delete"}
              /\ item_status' = 401) =>
             /\ bearer_token' = bearer_token
             /\ failed' = Append(failed, FailedRecord)
             /\ processed' = processed
             /\ i' = i + 1
             /\ pc' = "loop"
             /\ purpose' = "none"
             /\ sent' = sent
        /\ (pc = "wait" /\ purpose = "lookup" /\ item_status' = 401) =>
             /\ bearer_token' = bearer_token
             /\ user_id' = None
             /\ pc' = "dispatch"
             /\ purpose' = "none"
             /\ sent' = sent
        /\ (pc = "dispatch" /\ item_status = 401) =>
             /\ bearer_token' = bearer_token
             /\ failed' =
                  Append(failed, [identifier |-> ids[i], reason |-> "not_found"])
             /\ processed' = processed
             /\ i' = i + 1
             /\ pc' = "loop"
             /\ purpose' = "none"
             /\ sent' = sent]_vars

C17_Witness ==
  /\ pc = "loop"
  /\ item_status = 401
  /\ Len(ids) = 2
  /\ i = 2
  /\ failed = <<[identifier |-> ids[1], userId |-> U3, action |-> "lock",
                 status |-> "failed"]>>
  /\ bearer_token = JStr(Tok)
  /\ sent = {"auth", "lookup", "lock"}

\* C18: each identifier goes from its resolution to exactly one of: recorded
\* not found (and then no lock or delete call was made for it), recorded as
\* dry run, or, in execute mode, handed to the executor, which is called
\* once, with the resolved user id, and ends in a success or failed record.
C18_ItemStateMachine ==
  [][/\ (pc = "dispatch" /\ ~Truthy(user_id)) =>
          /\ failed' =
               Append(failed, [identifier |-> ids[i], reason |-> "not_found"])
          /\ pc' = "loop"
          /\ i' = i + 1
          /\ itemCalls["lock"] = 0
          /\ itemCalls["delete"] = 0
          /\ sent' = sent
     /\ (pc = "dispatch" /\ Truthy(user_id) /\ dry_run) =>
          /\ Len(processed') = Len(processed) + 1
          /\ processed'[Len(processed')].status = "dry_run"
          /\ pc' = "loop"
          /\ i' = i + 1
     /\ (pc = "dispatch" /\ Truthy(user_id) /\ ~dry_run) =>
          /\ pc' = "auth_headers"
          /\ cont' \in {"lock", "delete"}
     /\ (purpose = "none" /\ purpose' \in {"lock", "delete"}) =>
          /\ ~dry_run
          /\ purpose' = action
          /\ Truthy(user_id)
          /\ UUID_V4_RE(user_id.s)
          /\ request'.arg = user_id.s
          /\ itemCalls'[purpose'] = 1
     /\ (pc = "wait" /\ purpose \in {"lock", "delete"} /\ pc' # "send") =>
          /\ i' = i + 1
          /\ pc' = "loop"
          /\ itemCalls[purpose] = 1
          /\ \/ processed' = Append(processed, SuccessRecord) /\ failed' = failed
             \/ failed' = Append(failed, FailedRecord) /\ processed' = processed
    ]_vars

\* C19: the lock or delete call of an identifier ends without raising, and
\* the identifier is recorded as a success exactly when the status the call
\* returned is 200 or 204; with any other status (201, 401, 404, a 429 after
\* the last retry, 0 for a transport failure) it is recorded as failed; in
\* execute mode records are only made this way or for a not found identifier.
C19_ExecutorResult ==
  [][/\ (pc = "wait" /\ purpose \in {"lock", "delete"} /\ pc' # "send") =>
          /\ pc' = "loop"
          /\ err' = err
          /\ item_status' \in Statuses \cup {0}
          /\ item_status' \in {0, 429} => attempts = max_retries + 1
          /\ IF item_status' \in {200, 204}
               THEN /\ processed' = Append(processed, SuccessRecord)
                    /\ failed' = failed
               ELSE /\ failed' = Append(failed, FailedRecord)
                    /\ processed' = processed
     /\ (~dry_run /\ processed' # processed /\ i >= 1) =>
          (pc = "wait" /\ purpose = action /\ item_status' \in {200, 204})
     /\ (~dry_run /\ failed' # failed /\ i >= 1) =>
          \/ pc = "wait" /\ purpose = action /\ item_status' \notin {200, 204}
          \/ pc = "dispatch" /\ ~Truthy(user_id)
    ]_vars

C19_Witness ==
  /\ pc = "loop"
  /\ item_status = 201
  /\ ~dry_run
  /\ action = "delete"
  /\ i = 2
  /\ processed = <<>>
  /\ Len(failed) = 1
  /\ failed[1].status = "failed"

====
